---------------------------- MODULE Spec2Model ----------------------------
(***************************************************************************)
(* A model of the DNS message codec of src/structs: the query serializer   *)
(* (Header::to_bytes, Question::to_bytes, Message::to_bytes) and the       *)
(* response deserializer (Header::from_bytes, read_label with its          *)
(* compression table of shared nodes, Question::from_bytes,                *)
(* Answer::from_bytes, Message::from_bytes).                               *)
(*                                                                         *)
(* Bytes are the integers 0..255.  A Rust String is the sequence of its    *)
(* code points.  A buffer is a sequence of bytes; the cursor `pos` is the  *)
(* number of bytes consumed (remaining = Len(buf) - pos).                  *)
(*                                                                         *)
(* A decoding operation ends in one of four ways:                          *)
(*   "ok"       it returned Ok(value)                                      *)
(*   "err"      it returned Err(e)                                         *)
(*   "panic"    it panicked (bytes::Buf::get_* on too few bytes, or a      *)
(*              failed assert_eq!): the thread unwinds, nothing returns    *)
(*   "overflow" unbounded recursion of Node::get_full_label on a cyclic    *)
(*              node chain: the process aborts on stack exhaustion         *)
(***************************************************************************)
EXTENDS Integers, Sequences, FiniteSets, TLC

VARIABLES
    input,      \* the (domain, qtype, qclass, id) handed to create_query, or NoInput
    query,      \* the Message create_query built (or its error), or NoQuery
    buf,        \* the byte buffer from_bytes decodes (buf[..len])
    pos,        \* the cursor of from_bytes: bytes consumed so far
    heap,       \* the Rc<RefCell<Node>> cells allocated so far, in allocation order
    nodes,      \* the compression table: offset -> index of a cell of heap
    header,     \* the decoded Header, or NoHeader
    question,   \* the questions decoded so far
    answer,     \* the answers decoded so far
    authority,  \* the authority records decoded so far
    additional, \* the additional records decoded so far
    pc,         \* where from_bytes stands
    result,     \* what from_bytes ended with
    last,       \* the latest section element decoded: its outcome and read_label calls
    shown       \* the header fields Display wrote for the decoded Message, or NoShown

vars == <<input, query, buf, pos, heap, nodes, header, question, answer,
          authority, additional, pc, result, last, shown>>

(***************************************************************************)
(* Bounds of the model.                                                    *)
(***************************************************************************)
\* most questions in a name-family buffer
MaxNameQuestions == 2
\* most resource records in a section-family buffer
MaxRecords == 3
\* most labels in the domain of a query
MaxLabels == 2

(***************************************************************************)
(* Program constants.                                                      *)
(***************************************************************************)
QType_A == 1
QType_NS == 2
QType_CNAME == 5
QType_SOA == 6
QType_MX == 15
QType_TXT == 16
QType_AAAA == 28

QClass_IN == 1
QClass_CS == 2
QClass_CH == 3
QClass_HS == 4
QClass_ANY == 255

\* '.' as a code point
Dot == 46
\* the RD bit of the flags word: 1 << 8
RD_FLAG == 256
\* the octet mask 0xC0 of read_label
COMP_MASK == 192
\* 0x3F + 1: octet & 0x3F = octet % 64
LEN_MOD == 64

None == 0

Byte == 0..255

(***************************************************************************)
(* Outcomes.                                                               *)
(***************************************************************************)
NoValue == [tag |-> "none"]

(***************************************************************************)
(* Primitive codec.                                                        *)
(***************************************************************************)
\* write_u16 with to_le_bytes
write_u16_le(v) == << v % 256, (v \div 256) % 256 >>

\* v.to_be_bytes() of a u16
write_u16(v) == << (v \div 256) % 256, v % 256 >>

\* bytes::Buf::get_u8 / get_u16 / get_u32 panic when fewer bytes remain
CanRead(b, p, n) == p + n <= Len(b)

get_u8(b, p) == b[p + 1]

get_u16(b, p) == b[p + 1] * 256 + b[p + 2]

get_u32(b, p) == ((b[p + 1] * 256 + b[p + 2]) * 256 + b[p + 3]) * 256 + b[p + 4]

\* The concatenation of the sequences ss[lo..hi], halving the range
RECURSIVE FlattenRange(_, _, _)
FlattenRange(ss, lo, hi) ==
    IF lo > hi THEN << >>
    ELSE IF lo = hi THEN ss[lo]
    ELSE FlattenRange(ss, lo, (lo + hi) \div 2)
             \o FlattenRange(ss, ((lo + hi) \div 2) + 1, hi)

\* Vec::extend_from_slice over a sequence of slices
Flatten(ss) == FlattenRange(ss, 1, Len(ss))

(***************************************************************************)
(* Node and the compression table.  heap[i] is the i-th allocated cell,    *)
(* next = None (0) for Option::None, else the index of the cell linked.    *)
(***************************************************************************)
Node_new(label) == [label |-> label, next |-> None]

\* Whether following next from cell id never ends: a chain of more cells than
\* the heap holds has come back to a cell it visited.
RECURSIVE ChainLoops(_, _, _)
ChainLoops(hp, id, fuel) ==
    IF hp[id].next = None THEN FALSE
    ELSE IF fuel = 0 THEN TRUE
    ELSE ChainLoops(hp, hp[id].next, fuel - 1)

\* Node::get_full_label on a chain that ends
RECURSIVE get_full_label(_, _)
get_full_label(hp, id) ==
    LET l == Append(hp[id].label, Dot)
    IN  IF hp[id].next = None THEN l
        ELSE l \o get_full_label(hp, hp[id].next)

\* The result of one read_label call.  Beside what the code returns and mutates
\* (kind, name/err, pos, heap, nodes) it records what the call met: index (its
\* starting offset), octets (the label-start octets read, in order), ptr (the
\* offset of the pointer met, -1 when none), keys (the table's keys when the
\* pointer was looked up) and literals (the labels read before the end).
LabelResult(kind, name, err, p, hp, nd, start, octets, ptr, keys, nlit) ==
    [kind |-> kind, name |-> name, err |-> err, pos |-> p, heap |-> hp,
     nodes |-> nd, index |-> start, octets |-> octets, ptr |-> ptr,
     keys |-> keys, literals |-> nlit]

\* lines 117..123: after the loop
read_label_end(p, hp, nd, head, start, octets, ptr, keys, nlit) ==
    IF head = None
    THEN LabelResult("err", << >>, "No head detected", p, hp, nd, start, octets, ptr, keys, nlit)
    ELSE IF ChainLoops(hp, head, Len(hp))
    THEN LabelResult("overflow", << >>, "", p, hp, nd, start, octets, ptr, keys, nlit)
    ELSE LabelResult("ok", get_full_label(hp, head), "", p, hp, nd, start, octets, ptr, keys, nlit)

\* read_label_pointer with the None arm dropped: an unknown offset ends the
\* name like a terminator
read_label_pointer_lenient(p, hp, nd, head, prev, start, octets, offset, nlit) ==
    IF offset \in DOMAIN nd
    THEN LET node == nd[offset]
             hp2 == IF prev # None THEN [hp EXCEPT ![prev].next = node] ELSE hp
             head2 == IF head = None THEN node ELSE head
         IN  read_label_end(p, hp2, nd, head2, start, octets, offset, DOMAIN nd, nlit)
    ELSE read_label_end(p, hp, nd, head, start, octets, offset, DOMAIN nd, nlit)

\* lines 70..88: the pointer's offset looked up in the table
read_label_pointer(p, hp, nd, head, prev, start, octets, offset, nlit) ==
    IF offset \in DOMAIN nd
    THEN LET node == nd[offset]
             hp2 == IF prev # None THEN [hp EXCEPT ![prev].next = node] ELSE hp
             head2 == IF head = None THEN node ELSE head
         IN  read_label_end(p, hp2, nd, head2, start, octets, offset, DOMAIN nd, nlit)
    ELSE LabelResult("err", << >>, "No entry on nodes", p, hp, nd, start, octets,
                     offset, DOMAIN nd, nlit)

\* read_label_link without lines 107..109: the new node is not linked behind prev
read_label_link_unlinked(hp, prev, label) == Append(hp, Node_new(label))

\* lines 99..111: a literal label becomes a new node, registered under index
\* and linked behind prev
read_label_link(hp, prev, label) ==
    LET id == Len(hp) + 1
        hp1 == Append(hp, Node_new(label))
    IN  IF prev # None THEN [hp1 EXCEPT ![prev].next = id] ELSE hp1

read_label_insert(nd, index, id) == (index :> id) @@ nd

\* line 114: the offset of the next label
read_label_advance(index, len) == index + 1 + len

\* lines 64..65: whether the octet starts a compression pointer
IsPointer(octet) == (octet \div LEN_MOD) * LEN_MOD = COMP_MASK

\* line 91: the length the octet stands for
LabelLen(octet) == octet % LEN_MOD

\* lines 61..115: the loop
RECURSIVE read_label_loop(_, _, _, _, _, _, _, _, _, _)
read_label_loop(b, p, index, hp, nd, head, prev, start, octets, nlit) ==
    IF ~CanRead(b, p, 1)
    THEN LabelResult("panic", << >>, "", p, hp, nd, start, octets, -1, {}, nlit)
    ELSE
    LET octet == get_u8(b, p)
        octets2 == Append(octets, octet)
    IN
    IF IsPointer(octet)
    THEN IF ~CanRead(b, p + 1, 1)
         THEN LabelResult("panic", << >>, "", p + 1, hp, nd, start, octets2, -1, {}, nlit)
         ELSE LET offset == (octet % LEN_MOD) * 256 + get_u8(b, p + 1)
              IN  read_label_pointer(p + 2, hp, nd, head, prev, start, octets2, offset, nlit)
    ELSE
    LET len == LabelLen(octet)
    IN
    IF len = 0
    THEN read_label_end(p + 1, hp, nd, head, start, octets2, -1, {}, nlit)
    ELSE IF ~CanRead(b, p + 1, len)
    THEN LabelResult("panic", << >>, "", Len(b), hp, nd, start, octets2, -1, {}, nlit)
    ELSE
    LET label == SubSeq(b, p + 2, p + 1 + len)
        id == Len(hp) + 1
        hp2 == read_label_link(hp, prev, label)
        nd2 == read_label_insert(nd, index, id)
        head2 == IF head = None THEN id ELSE head
    IN  read_label_loop(b, p + 1 + len, read_label_advance(index, len), hp2, nd2,
                        head2, id, start, octets2, nlit + 1)

\* read_label(buf, index, nodes)
read_label(b, p, index, hp, nd) ==
    read_label_loop(b, p, index, hp, nd, None, None, index, << >>, 0)


(***************************************************************************)
(* Errors.  A Box<dyn Error> is one of ParseLabelError, ParseQTypeError,   *)
(* ParseQClassError; text is the label error's value, code the rejected    *)
(* 16-bit code of the other two.  A panic carries its message in text.     *)
(***************************************************************************)
NoErr == [type |-> "", text |-> "", code |-> -1]

ParseLabelError(text) == [type |-> "ParseLabelError", text |-> text, code |-> -1]

ParseQTypeError(code) == [type |-> "ParseQTypeError", text |-> "", code |-> code]

ParseQClassError(code) == [type |-> "ParseQClassError", text |-> "", code |-> code]

PanicMsg(text) == [type |-> "panic", text |-> text, code |-> -1]

\* What a failed read_label call hands to its caller through `?` (or the panic
\* or abort that ends the thread).
LabelFailure(r) ==
    IF r.kind = "err" THEN ParseLabelError(r.err)
    ELSE IF r.kind = "panic" THEN PanicMsg("advance out of bounds")
    ELSE PanicMsg("stack overflow")

(***************************************************************************)
(* QType and QClass.                                                       *)
(***************************************************************************)
QTypeCodes == {QType_A, QType_NS, QType_CNAME, QType_MX, QType_TXT, QType_AAAA}

QClassCodes == {QClass_IN, QClass_CS, QClass_CH, QClass_HS, QClass_ANY}

\* QType::from_u16: the closed set of question.rs
QType_from_u16(v) == v \in QTypeCodes

\* QClass::from_u16 without the arm 255 => ANY
QClass_from_u16_no_any(v) == v \in {QClass_IN, QClass_CS, QClass_CH, QClass_HS}

\* QClass::from_u16
QClass_from_u16(v) == v \in QClassCodes

\* QType::from_str / QClass::from_str: the code of a mnemonic, -1 for Err
QType_from_str(s) ==
    CASE s = "A" -> QType_A
      [] s = "NS" -> QType_NS
      [] s = "CNAME" -> QType_CNAME
      [] s = "MX" -> QType_MX
      [] s = "TXT" -> QType_TXT
      [] s = "AAAA" -> QType_AAAA
      [] OTHER -> -1

QClass_from_str(s) ==
    CASE s = "IN" -> QClass_IN
      [] s = "CS" -> QClass_CS
      [] s = "CH" -> QClass_CH
      [] s = "HS" -> QClass_HS
      [] s = "ANY" -> QClass_ANY
      [] OTHER -> -1

(***************************************************************************)
(* Section elements.  The result of decoding one element: kind, the error  *)
(* (or panic message), the cursor, heap and table afterwards, the value    *)
(* and the read_label calls made, in order.                                *)
(***************************************************************************)
\* let index = len - buf.remaining()
Index(len, remaining) == len - remaining

CallOf(r) ==
    [index |-> r.index, kind |-> r.kind, name |-> r.name, err |-> r.err,
     octets |-> r.octets, ptr |-> r.ptr, keys |-> r.keys,
     literals |-> r.literals, end |-> r.pos]

ElemResult(kind, err, p, hp, nd, value, calls) ==
    [kind |-> kind, err |-> err, pos |-> p, heap |-> hp, nodes |-> nd,
     value |-> value, calls |-> calls]

ElemFail(r, calls) ==
    ElemResult(IF r.kind = "err" THEN "err" ELSE r.kind, LabelFailure(r),
               r.pos, r.heap, r.nodes, NoValue, calls)

ElemPanic(text, p, hp, nd, calls) ==
    ElemResult("panic", PanicMsg(text), p, hp, nd, NoValue, calls)

\* Question::from_bytes after its read_label call r: the type, then the class
question_fields(b, r) ==
    IF r.kind # "ok" THEN ElemFail(r, << CallOf(r) >>)
    ELSE IF ~CanRead(b, r.pos, 2)
    THEN ElemPanic("advance out of bounds", r.pos, r.heap, r.nodes, << CallOf(r) >>)
    ELSE IF ~QType_from_u16(get_u16(b, r.pos))
    THEN ElemResult("err", ParseQTypeError(get_u16(b, r.pos)), r.pos + 2, r.heap,
                    r.nodes, NoValue, << CallOf(r) >>)
    ELSE IF ~CanRead(b, r.pos + 2, 2)
    THEN ElemPanic("advance out of bounds", r.pos + 2, r.heap, r.nodes, << CallOf(r) >>)
    ELSE IF ~QClass_from_u16(get_u16(b, r.pos + 2))
    THEN ElemResult("err", ParseQClassError(get_u16(b, r.pos + 2)), r.pos + 4, r.heap,
                    r.nodes, NoValue, << CallOf(r) >>)
    ELSE ElemResult("ok", NoErr, r.pos + 4, r.heap, r.nodes,
                    [tag |-> "question", qname |-> r.name,
                     qtype |-> get_u16(b, r.pos), qclass |-> get_u16(b, r.pos + 2)],
                    << CallOf(r) >>)

\* Question::from_bytes
Question_from_bytes(b, p, hp, nd) ==
    question_fields(b, read_label(b, p, Index(Len(b), Len(b) - p), hp, nd))

\* RDATA values: one record shape for every variant
RData(variant, bytes, pref, names, nums) ==
    [variant |-> variant, bytes |-> bytes, pref |-> pref, names |-> names,
     nums |-> nums]

AnswerValue(name, rtype, class, ttl, rdlength, rdata) ==
    [tag |-> "answer", name |-> name, rtype |-> rtype, class |-> class,
     ttl |-> ttl, rdlength |-> rdlength, rdata |-> rdata]

\* The result of the RDATA match: kind, err, pos, heap, nodes, the RDATA value
\* and the read_label calls it made.
RDataResult(kind, err, p, hp, nd, rdata, calls) ==
    [kind |-> kind, err |-> err, pos |-> p, heap |-> hp, nodes |-> nd,
     rdata |-> rdata, calls |-> calls]

NoRData == RData("none", << >>, 0, << >>, << >>)

RDataPanic(text, p, hp, nd, calls) ==
    RDataResult("panic", PanicMsg(text), p, hp, nd, NoRData, calls)

RDataFail(r, calls) ==
    RDataResult(r.kind, LabelFailure(r), r.pos, r.heap, r.nodes, NoRData, calls)

\* QType::A (lines 107..115) and QType::AAAA (lines 117..127): rdlength bytes
\* are read, then assert_eq!(v.len(), size)
rdata_address(b, p, hp, nd, rdlength, size, variant, text) ==
    IF ~CanRead(b, p, rdlength)
    THEN RDataPanic("advance out of bounds", Len(b), hp, nd, << >>)
    ELSE IF rdlength # size
    THEN RDataPanic(text, p + rdlength, hp, nd, << >>)
    ELSE RDataResult("ok", NoErr, p + rdlength, hp, nd,
                     RData(variant, SubSeq(b, p + 1, p + rdlength), 0, << >>, << >>),
                     << >>)

\* QType::TXT (lines 129..140): one length byte, then that many bytes
rdata_txt(b, p, hp, nd) ==
    IF ~CanRead(b, p, 1)
    THEN RDataPanic("advance out of bounds", p, hp, nd, << >>)
    ELSE IF ~CanRead(b, p + 1, get_u8(b, p))
    THEN RDataPanic("advance out of bounds", Len(b), hp, nd, << >>)
    ELSE RDataResult("ok", NoErr, p + 1 + get_u8(b, p), hp, nd,
                     RData("TXT", SubSeq(b, p + 2, p + 1 + get_u8(b, p)), 0, << >>, << >>),
                     << >>)

\* RDATA that ends with the name read_label call r decoded
rdata_named(variant, pref, r) ==
    IF r.kind # "ok" THEN RDataFail(r, << CallOf(r) >>)
    ELSE RDataResult("ok", NoErr, r.pos, r.heap, r.nodes,
                     RData(variant, << >>, pref, << r.name >>, << >>), << CallOf(r) >>)

\* QType::CNAME | QType::NS (lines 142..147)
rdata_name(b, p, hp, nd) ==
    rdata_named("DomainName", 0, read_label(b, p, Index(Len(b), Len(b) - p), hp, nd))

\* QType::MX (lines 149..156)
rdata_mx(b, p, hp, nd) ==
    IF ~CanRead(b, p, 2)
    THEN RDataPanic("advance out of bounds", p, hp, nd, << >>)
    ELSE rdata_named("MX", get_u16(b, p),
                     read_label(b, p + 2, Index(Len(b), Len(b) - (p + 2)), hp, nd))

\* QType::SOA after both names (lines 165..179): five u32
rdata_soa_numbers(b, m, r) ==
    IF r.kind # "ok" THEN RDataFail(r, << CallOf(m), CallOf(r) >>)
    ELSE IF ~CanRead(b, r.pos, 20)
    THEN RDataPanic("advance out of bounds", r.pos, r.heap, r.nodes,
                    << CallOf(m), CallOf(r) >>)
    ELSE RDataResult("ok", NoErr, r.pos + 20, r.heap, r.nodes,
                     RData("SOA", << >>, 0, << m.name, r.name >>,
                           [i \in 1..5 |-> get_u32(b, r.pos + 4 * (i - 1))]),
                     << CallOf(m), CallOf(r) >>)

\* QType::SOA after mname (lines 162..163): rname
rdata_soa_rname(b, m) ==
    IF m.kind # "ok" THEN RDataFail(m, << CallOf(m) >>)
    ELSE rdata_soa_numbers(b, m,
             read_label(b, m.pos, Index(Len(b), Len(b) - m.pos), m.heap, m.nodes))

\* QType::SOA (lines 158..180)
rdata_soa(b, p, hp, nd) ==
    rdata_soa_rname(b, read_label(b, p, Index(Len(b), Len(b) - p), hp, nd))

\* lines 106..181: let rdata = match rtype { ... }
rdata_match(b, p, hp, nd, rtype, rdlength) ==
    CASE rtype = QType_A ->
           rdata_address(b, p, hp, nd, rdlength, 4, "IPV4", "Invalid A record length")
      [] rtype = QType_AAAA ->
           rdata_address(b, p, hp, nd, rdlength, 16, "IPV6", "Invalid AAAA record length")
      [] rtype = QType_TXT -> rdata_txt(b, p, hp, nd)
      [] rtype \in {QType_CNAME, QType_NS} -> rdata_name(b, p, hp, nd)
      [] rtype = QType_MX -> rdata_mx(b, p, hp, nd)
      [] rtype = QType_SOA -> rdata_soa(b, p, hp, nd)

\* lines 183..190: Ok(Self { .. }) once the RDATA match d is through
answer_value(r, rtype, class, ttl, rdlength, d) ==
    IF d.kind # "ok"
    THEN ElemResult(d.kind, d.err, d.pos, d.heap, d.nodes, NoValue,
                    << CallOf(r) >> \o d.calls)
    ELSE ElemResult("ok", NoErr, d.pos, d.heap, d.nodes,
                    AnswerValue(r.name, rtype, class, ttl, rdlength, d.rdata),
                    << CallOf(r) >> \o d.calls)

\* Answer::from_bytes after its first read_label call r (lines 100..106)
answer_fields(b, r) ==
    IF r.kind # "ok" THEN ElemFail(r, << CallOf(r) >>)
    ELSE IF ~CanRead(b, r.pos, 2)
    THEN ElemPanic("advance out of bounds", r.pos, r.heap, r.nodes, << CallOf(r) >>)
    ELSE IF ~QType_from_u16(get_u16(b, r.pos))
    THEN ElemResult("err", ParseQTypeError(get_u16(b, r.pos)), r.pos + 2, r.heap,
                    r.nodes, NoValue, << CallOf(r) >>)
    ELSE IF ~CanRead(b, r.pos + 2, 2)
    THEN ElemPanic("advance out of bounds", r.pos + 2, r.heap, r.nodes, << CallOf(r) >>)
    ELSE IF ~QClass_from_u16(get_u16(b, r.pos + 2))
    THEN ElemResult("err", ParseQClassError(get_u16(b, r.pos + 2)), r.pos + 4, r.heap,
                    r.nodes, NoValue, << CallOf(r) >>)
    ELSE IF ~CanRead(b, r.pos + 4, 4)
    THEN ElemPanic("advance out of bounds", r.pos + 4, r.heap, r.nodes, << CallOf(r) >>)
    ELSE IF ~CanRead(b, r.pos + 8, 2)
    THEN ElemPanic("advance out of bounds", r.pos + 8, r.heap, r.nodes, << CallOf(r) >>)
    ELSE answer_value(r, get_u16(b, r.pos), get_u16(b, r.pos + 2), get_u32(b, r.pos + 4),
                      get_u16(b, r.pos + 8),
                      rdata_match(b, r.pos + 10, r.heap, r.nodes, get_u16(b, r.pos),
                                  get_u16(b, r.pos + 8)))

\* Answer::from_bytes
Answer_from_bytes(b, p, hp, nd) ==
    answer_fields(b, read_label(b, p, Index(Len(b), Len(b) - p), hp, nd))

(***************************************************************************)
(* Header.                                                                 *)
(***************************************************************************)
NoHeader == [id |-> -1, flags |-> -1, qdcount |-> 0, ancount |-> 0,
             nscount |-> 0, arcount |-> 0]

Header(id, flags, qd, an, ns, ar) ==
    [id |-> id, flags |-> flags, qdcount |-> qd, ancount |-> an,
     nscount |-> ns, arcount |-> ar]

\* Header::create_query_header, with the random id drawn by the caller
create_query_header(id) == Header(id, RD_FLAG, 1, 0, 0, 0)

\* Header::to_bytes
Header_to_bytes(h) ==
    write_u16(h.id) \o write_u16(h.flags) \o write_u16(h.qdcount)
        \o write_u16(h.ancount) \o write_u16(h.nscount) \o write_u16(h.arcount)

\* Header::from_bytes: six get_u16 on a buffer that holds them
Header_from_bytes(b) ==
    Header(get_u16(b, 0), get_u16(b, 2), get_u16(b, 4), get_u16(b, 6),
           get_u16(b, 8), get_u16(b, 10))

\* v >> n on a u16
shr(v, n) == v \div (2 ^ n)

\* Nothing displayed
NoShown == [id |-> -1]

\* Display for Header: the value each line writes.  `>>` binds tighter than
\* `&`, so `flags >> 11 & 0x7` is (flags >> 11) & 0x7.
Header_fmt(h) ==
    [id |-> h.id,
     QR |-> shr(h.flags, 15),
     OPCODE |-> shr(h.flags, 11) % 8,
     AA |-> shr(h.flags, 10) % 2,
     TC |-> shr(h.flags, 9) % 2,
     RD |-> shr(h.flags, 8) % 2,
     RA |-> shr(h.flags, 7) % 2,
     Z |-> shr(h.flags, 4) % 8,
     RCODE |-> h.flags % 16,
     QDCOUNT |-> h.qdcount,
     ANCOUNT |-> h.ancount,
     NSCOUNT |-> h.nscount,
     ARCOUNT |-> h.arcount]

(***************************************************************************)
(* Question and Message: building and serializing a query.                 *)
(***************************************************************************)
\* char::is_whitespace on the code points below 256
IsWhitespace(c) == c \in {9, 10, 11, 12, 13, 32, 133, 160}

\* str::trim
RECURSIVE trim_start(_)
trim_start(s) ==
    IF s # << >> /\ IsWhitespace(Head(s)) THEN trim_start(Tail(s)) ELSE s

RECURSIVE trim_end(_)
trim_end(s) ==
    IF s # << >> /\ IsWhitespace(s[Len(s)])
    THEN trim_end(SubSeq(s, 1, Len(s) - 1)) ELSE s

trim(s) == trim_end(trim_start(s))

\* The position of the k-th dot of s; 0 for k = 0 and Len(s) + 1 past the last
dot_at(s, k) ==
    IF k = 0 THEN 0
    ELSE IF k > Cardinality({ i \in 1..Len(s) : s[i] = Dot }) THEN Len(s) + 1
    ELSE CHOOSE i \in 1..Len(s) :
            /\ s[i] = Dot
            /\ Cardinality({ j \in 1..i : s[j] = Dot }) = k

\* str::split('.'): the pieces between the dots, empty ones included; a string
\* with n dots has n + 1 pieces
split(s) ==
    [k \in 1..(Cardinality({ i \in 1..Len(s) : s[i] = Dot }) + 1) |->
        SubSeq(s, dot_at(s, k - 1) + 1, dot_at(s, k) - 1)]

\* The UTF-8 bytes of one code point below 2048
utf8(c) == IF c < 128 THEN << c >> ELSE << 192 + (c \div 64), 128 + (c % 64) >>

\* str::as_bytes
as_bytes(s) == Flatten([i \in 1..Len(s) |-> utf8(s[i])])

\* line 167: label.len() as u8 (len is the length in bytes)
label_len_u8(label) == Len(as_bytes(label)) % 256

\* lines 166..171: the name of Question::to_bytes
qname_to_bytes(qname) ==
    LET labels == split(qname)
    IN  Flatten([i \in 1..Len(labels) |->
                    << label_len_u8(labels[i]) >> \o as_bytes(labels[i])])
        \o << 0 >>

\* Question::to_bytes
Question_to_bytes(q) ==
    qname_to_bytes(q.qname) \o write_u16(q.qtype) \o write_u16(q.qclass)

\* Question::create_query_question: Ok(question) or the mnemonic's error
create_query_question(domain, typ, class) ==
    IF QType_from_str(typ) = -1
    THEN [kind |-> "err", err |-> [type |-> "ParseQTypeError", text |-> typ, code |-> -1],
          value |-> NoValue]
    ELSE IF QClass_from_str(class) = -1
    THEN [kind |-> "err", err |-> [type |-> "ParseQClassError", text |-> class, code |-> -1],
          value |-> NoValue]
    ELSE [kind |-> "ok", err |-> NoErr,
          value |-> [tag |-> "question", qname |-> trim(domain),
                     qtype |-> QType_from_str(typ), qclass |-> QClass_from_str(class)]]

NoMessage == [header |-> NoHeader, question |-> << >>, answer |-> << >>,
              authority |-> << >>, additional |-> << >>]

Message(h, q, an, ns, ar) ==
    [header |-> h, question |-> q, answer |-> an, authority |-> ns,
     additional |-> ar]

\* Message::create_query
create_query(domain, typ, class, id) ==
    LET q == create_query_question(domain, typ, class)
    IN  IF q.kind = "ok"
        THEN [kind |-> "ok", err |-> NoErr,
              message |-> Message(create_query_header(id), << q.value >>, << >>, << >>, << >>)]
        ELSE [kind |-> "err", err |-> q.err, message |-> NoMessage]

\* Message::to_bytes
Message_to_bytes(m) ==
    Header_to_bytes(m.header)
        \o Flatten([i \in 1..Len(m.question) |-> Question_to_bytes(m.question[i])])

(***************************************************************************)
(* Message::from_bytes as a state machine: the header, then one step per   *)
(* section element.  pc is "start" before the header is read, the name of  *)
(* the section whose next element is decoded, or "done".                   *)
(***************************************************************************)
Sections == << "question", "answer", "authority", "additional" >>

\* Declared with the additional section run over nscount
Declared_nscount(h, sec) ==
    CASE sec = "question" -> h.qdcount
      [] sec = "answer" -> h.ancount
      [] sec = "authority" -> h.nscount
      [] sec = "additional" -> h.nscount

\* The count the header declares for a section (the range each map runs over)
Declared(h, sec) ==
    CASE sec = "question" -> h.qdcount
      [] sec = "answer" -> h.ancount
      [] sec = "authority" -> h.nscount
      [] sec = "additional" -> h.arcount

\* The section whose element is decoded next, from section i on, when lens[j]
\* elements of section j are decoded: the four collect() calls run in wire
\* order, each until its range is exhausted; "done" after the last.
RECURSIVE Proceed(_, _, _)
Proceed(h, i, lens) ==
    IF i > Len(Sections) THEN "done"
    ELSE IF lens[i] < Declared(h, Sections[i]) THEN Sections[i]
    ELSE Proceed(h, i + 1, lens)

NoResult == [kind |-> "none", err |-> NoErr, message |-> NoMessage]

\* Ok(Message { header, question, answer, authority, additional })
OkResult(m) == [kind |-> "ok", err |-> NoErr, message |-> m]

\* Err(e) through `?`, or the panic or abort that ends the call: no Message
Failure(kind, err) == [kind |-> kind, err |-> err, message |-> NoMessage]

NoLast == [section |-> "none", kind |-> "none", err |-> NoErr, start |-> 0,
           end |-> 0, value |-> NoValue, calls |-> << >>, keys |-> {}]

LastOf(sec, e, start, keys) ==
    [section |-> sec, kind |-> e.kind, err |-> e.err, start |-> start,
     end |-> e.pos, value |-> e.value, calls |-> e.calls, keys |-> keys]

\* What from_bytes returns once pc2 is reached with message m
ResultAt(pc2, m) == IF pc2 = "done" THEN OkResult(m) ELSE NoResult

\* lines 38..41: the slice, the table and the header
ReadHeader ==
    /\ pc = "start"
    /\ IF ~CanRead(buf, 0, 12)
       THEN /\ pc' = "done"
            /\ result' = Failure("panic", PanicMsg("advance out of bounds"))
            /\ UNCHANGED <<header, pos>>
       ELSE LET h == Header_from_bytes(buf)
                pc2 == Proceed(h, 1, << 0, 0, 0, 0 >>)
            IN  /\ header' = h
                /\ pos' = 12
                /\ pc' = pc2
                /\ result' = ResultAt(pc2, Message(h, << >>, << >>, << >>, << >>))
    /\ heap' = << >>
    /\ nodes' = << >>
    /\ UNCHANGED <<input, query, buf, question, answer, authority, additional, last, shown>>

\* The sections after element v of section i is pushed
Pushed(i, v) ==
    [j \in 1..4 |->
        LET cur == << question, answer, authority, additional >>[j]
        IN  IF j = i THEN Append(cur, v) ELSE cur]

\* DecodeStep with a failed element dropped instead of returned: the section
\* is left and the next one begun
DecodeStep_dropping(i, e) ==
    /\ last' = LastOf(Sections[i], e, pos, DOMAIN nodes)
    /\ IF e.kind = "ok"
       THEN LET secs == Pushed(i, e.value)
                pc2 == Proceed(header, i, [j \in 1..4 |-> Len(secs[j])])
            IN  /\ question' = secs[1]
                /\ answer' = secs[2]
                /\ authority' = secs[3]
                /\ additional' = secs[4]
                /\ pos' = e.pos
                /\ heap' = e.heap
                /\ nodes' = e.nodes
                /\ pc' = pc2
                /\ result' = ResultAt(pc2, Message(header, secs[1], secs[2], secs[3], secs[4]))
       ELSE LET pc2 == Proceed(header, i + 1,
                               << Len(question), Len(answer), Len(authority), Len(additional) >>)
            IN  /\ pc' = pc2
                /\ result' = ResultAt(pc2, Message(header, question, answer, authority, additional))
                /\ UNCHANGED <<question, answer, authority, additional, pos, heap, nodes>>
    /\ UNCHANGED <<input, query, buf, header, shown>>

\* One element of section Sections[i], decoded by e: pushed when Ok, else the
\* collect() stops and `?` returns the error.
DecodeStep(i, e) ==
    /\ last' = LastOf(Sections[i], e, pos, DOMAIN nodes)
    /\ IF e.kind = "ok"
       THEN LET secs == Pushed(i, e.value)
                pc2 == Proceed(header, i, [j \in 1..4 |-> Len(secs[j])])
            IN  /\ question' = secs[1]
                /\ answer' = secs[2]
                /\ authority' = secs[3]
                /\ additional' = secs[4]
                /\ pos' = e.pos
                /\ heap' = e.heap
                /\ nodes' = e.nodes
                /\ pc' = pc2
                /\ result' = ResultAt(pc2, Message(header, secs[1], secs[2], secs[3], secs[4]))
       ELSE /\ pc' = "done"
            /\ result' = Failure(e.kind, e.err)
            /\ UNCHANGED <<question, answer, authority, additional, pos, heap, nodes>>
    /\ UNCHANGED <<input, query, buf, header, shown>>

\* lines 43..45
DecodeQuestion ==
    /\ pc = "question"
    /\ DecodeStep(1, Question_from_bytes(buf, pos, heap, nodes))

\* lines 47..49
DecodeAnswer ==
    /\ pc = "answer"
    /\ DecodeStep(2, Answer_from_bytes(buf, pos, heap, nodes))

\* lines 51..53
DecodeAuthority ==
    /\ pc = "authority"
    /\ DecodeStep(3, Answer_from_bytes(buf, pos, heap, nodes))

\* lines 55..57
DecodeAdditional ==
    /\ pc = "additional"
    /\ DecodeStep(4, Answer_from_bytes(buf, pos, heap, nodes))

\* Display for Message, its header part: writeln!(f, "{}", self.header) on
\* the Message from_bytes returned
DisplayHeader ==
    /\ pc = "done"
    /\ result.kind = "ok"
    /\ shown = NoShown
    /\ shown' = Header_fmt(result.message.header)
    /\ UNCHANGED <<input, query, buf, pos, heap, nodes, header, question, answer,
                   authority, additional, pc, result, last>>

(***************************************************************************)
(* Building a query and sending it through the decoder.                    *)
(***************************************************************************)
NoInput == [labels |-> << >>, domain |-> << >>, qtype |-> "", qclass |-> "", id |-> -1]

NoQuery == [kind |-> "none", err |-> NoErr, message |-> NoMessage]

\* Message::create_query(domain, qtype, qclass)
CreateQuery ==
    /\ pc = "input"
    /\ query' = create_query(input.domain, input.qtype, input.qclass, input.id)
    /\ pc' = "created"
    /\ UNCHANGED <<input, buf, pos, heap, nodes, header, question, answer,
                   authority, additional, result, last, shown>>

\* packet.to_bytes(), the bytes then handed to Message::from_bytes(&buf, len)
ToBytes ==
    /\ pc = "created"
    /\ query.kind = "ok"
    /\ buf' = Message_to_bytes(query.message)
    /\ pc' = "start"
    /\ UNCHANGED <<input, query, pos, heap, nodes, header, question, answer,
                   authority, additional, result, last, shown>>

(***************************************************************************)
(* Inputs.                                                                 *)
(***************************************************************************)
\* All sequences of at most n elements of S
RECURSIVE SeqsUpTo(_, _)
SeqsUpTo(S, n) ==
    IF n = 0 THEN { << >> }
    ELSE LET shorter == SeqsUpTo(S, n - 1)
         IN  shorter \cup { Append(q, x) : q \in { t \in shorter : Len(t) = n - 1 }, x \in S }

\* The first question of a message starts right after the 12-byte header.
\* Encoded names: literal names, the root, pointers to offset 12 (a first
\* label), 14 (the second label of "a.b" at 12), 19 and 21 (where a second
\* question starts after "a" or "a.b"), 0 (inside the header), a label followed
\* by a pointer, and label-start octets with the reserved top bits 01 and 10.
LiteralNames == { << 1, 97, 0 >>, << 1, 97, 1, 98, 0 >> }

PointerNames == { << 192, 12 >>, << 192, 14 >>, << 192, 19 >>, << 192, 21 >>,
                  << 192, 0 >> }

TailNames == { << 1, 99, 192, 12 >>, << 1, 99, 192, 19 >> }

OddNames == { << 0 >>, << 65, 97, 0 >>, << 128 >>, << 130, 97, 98, 0 >> }

NameEncodings == LiteralNames \cup PointerNames \cup TailNames \cup OddNames

\* A question of type A, class IN
QuestionOf(name) == name \o write_u16(QType_A) \o write_u16(QClass_IN)

\* A resource record
RecordOf(name, rtype, class, rdlength, rdata) ==
    name \o write_u16(rtype) \o write_u16(class) \o << 0, 0, 1, 44 >>
        \o write_u16(rdlength) \o rdata

\* The records of the name family: a CNAME or MX whose RDATA holds a name, an
\* A, a TXT, and a TXT of two character-strings and a CNAME whose name is
\* shorter than its RDLENGTH
NameRecords ==
    { RecordOf(n, QType_CNAME, QClass_IN, Len(d), d) :
        n \in PointerNames \cup { << 1, 100, 0 >> },
        d \in { << 192, 12 >>, << 192, 19 >>, << 1, 101, 192, 14 >>, << 1, 97, 0 >> } }
    \cup { RecordOf(n, QType_A, QClass_IN, 4, << 93, 184, 216, 34 >>) : n \in PointerNames }
    \cup { RecordOf(<< 192, 12 >>, QType_MX, QClass_IN, 4, << 0, 10, 192, 12 >>),
           RecordOf(<< 192, 12 >>, QType_TXT, QClass_IN, 3, << 2, 104, 105 >>),
           RecordOf(<< 192, 12 >>, QType_TXT, QClass_IN, 4, << 1, 104, 1, 105 >>),
           RecordOf(<< 192, 12 >>, QType_CNAME, QClass_IN, 4, << 192, 12, 0, 0 >>) }

\* Buffers of the name family: up to MaxNameQuestions questions and at most
\* one answer, all declared in the header
NameBuffers ==
    { Header_to_bytes(Header(7, 33152, Len(qs), Len(rs), 0, 0)) \o Flatten(qs) \o Flatten(rs) :
        qs \in SeqsUpTo({ QuestionOf(n) : n \in NameEncodings }, MaxNameQuestions),
        rs \in SeqsUpTo(NameRecords, 1) }

\* The records of the section family: A and AAAA records of the right and of
\* a wrong RDLENGTH, a CNAME, and a record of a type from_u16 rejects
SectionRecords ==
    { RecordOf(<< 192, 12 >>, QType_A, QClass_IN, 4, << 93, 184, 216, 34 >>),
      RecordOf(<< 192, 12 >>, QType_A, QClass_IN, 3, << 93, 184, 216 >>),
      RecordOf(<< 192, 12 >>, QType_AAAA, QClass_IN, 16, [i \in 1..16 |-> 32 + i]),
      RecordOf(<< 192, 12 >>, QType_AAAA, QClass_IN, 4, << 1, 2, 3, 4 >>),
      RecordOf(<< 192, 12 >>, QType_CNAME, QClass_IN, 2, << 192, 12 >>),
      RecordOf(<< 192, 12 >>, QType_SOA, QClass_IN, 0, << >>) }

SectionQuestions ==
    { QuestionOf(<< 1, 97, 0 >>),
      << 1, 97, 0 >> \o write_u16(99) \o write_u16(QClass_IN) }

\* Buffers of the section family: the header's counts are chosen apart from
\* the elements the buffer holds, and the buffer may lose its last bytes
ChopLast(whole, chop) == SubSeq(whole, 1, Len(whole) - chop)

SectionBuffers ==
    { ChopLast(Header_to_bytes(Header(7, 33152, qd, an, ns, ar))
                   \o Flatten(qs) \o Flatten(rs), chop) :
        qd \in 0..1, an \in 0..2, ns \in 0..1, ar \in 0..1,
        qs \in SeqsUpTo(SectionQuestions, 1),
        rs \in SeqsUpTo(SectionRecords, MaxRecords),
        chop \in {0, 1} }

InitDecode(buffers) ==
    /\ input = NoInput
    /\ query = NoQuery
    /\ buf \in buffers
    /\ pos = 0
    /\ heap = << >>
    /\ nodes = << >>
    /\ header = NoHeader
    /\ question = << >>
    /\ answer = << >>
    /\ authority = << >>
    /\ additional = << >>
    /\ pc = "start"
    /\ result = NoResult
    /\ last = NoLast
    /\ shown = NoShown

\* Decoding buffers rich in names
InitNames == InitDecode(NameBuffers)

NextNames == ReadHeader \/ DecodeQuestion \/ DecodeAnswer

SpecNames == InitNames /\ [][NextNames]_vars

\* Decoding buffers whose sections and counts vary
Init == InitDecode(SectionBuffers)

Next ==
    \/ ReadHeader
    \/ DecodeQuestion
    \/ DecodeAnswer
    \/ DecodeAuthority
    \/ DecodeAdditional

Spec == Init /\ [][Next]_vars

(***************************************************************************)
(* Queries: create_query, to_bytes, and from_bytes on the bytes written.   *)
(***************************************************************************)
\* n times the code point c
Rep(c, n) == [i \in 1..n |-> c]

\* Labels a domain is made of: short ones, one of 63 and one of 64 bytes, one
\* of 257 bytes, the empty label (a leading, trailing or doubled dot), one
\* with a code point above 127 and one that starts with a space
DomainLabels ==
    { << 97 >>, << 98, 99 >>, Rep(120, 63), Rep(120, 64), Rep(120, 257), << >>,
      << 233 >>, << 32, 97 >> }

\* The labels joined by dots
RECURSIVE Join(_)
Join(labels) ==
    IF Len(labels) = 0 THEN << >>
    ELSE IF Len(labels) = 1 THEN labels[1]
    ELSE labels[1] \o << Dot >> \o Join(Tail(labels))

\* Type and class mnemonics: every type with IN, every class with A, and
\* mnemonics the enumerations do not hold
Mnemonics ==
    { << t, "IN" >> : t \in {"A", "NS", "CNAME", "MX", "TXT", "AAAA", "SOA"} }
    \cup { << "A", c >> : c \in {"CS", "CH", "HS", "ANY", "NONE"} }

QueryInputs ==
    { [labels |-> ls, domain |-> Join(ls), qtype |-> m[1], qclass |-> m[2], id |-> id] :
        ls \in SeqsUpTo(DomainLabels, MaxLabels) \ { << >> },
        m \in Mnemonics,
        id \in {4660, 65280} }

InitQuery ==
    /\ input \in QueryInputs
    /\ query = NoQuery
    /\ buf = << >>
    /\ pos = 0
    /\ heap = << >>
    /\ nodes = << >>
    /\ header = NoHeader
    /\ question = << >>
    /\ answer = << >>
    /\ authority = << >>
    /\ additional = << >>
    /\ pc = "input"
    /\ result = NoResult
    /\ last = NoLast
    /\ shown = NoShown

NextQuery == CreateQuery \/ ToBytes \/ ReadHeader \/ DecodeQuestion

SpecQuery == InitQuery /\ [][NextQuery]_vars

\* Decoding and displaying bare headers: every 16-bit flags value, no
\* section elements declared
HeaderBuffers == { Header_to_bytes(Header(7, f, 0, 0, 0, 0)) : f \in 0..65535 }

InitHeader == InitDecode(HeaderBuffers)

NextHeader == ReadHeader \/ DisplayHeader

SpecHeader == InitHeader /\ [][NextHeader]_vars

(***************************************************************************)
(* Properties of name decoding, checked under SpecNames.                   *)
(***************************************************************************)
\* The dotted name the bytes at absolute offset k spell: each label (a
\* label-start octet below 0xC0 counts as the length in its low six bits, as
\* read_label reads it) followed by a dot, up to the terminator, a pointer
\* followed to its target.  Read from the buffer alone, not from the table.
RECURSIVE NameAt(_, _, _)
NameAt(b, k, fuel) ==
    IF fuel = 0 \/ k >= Len(b) THEN << >>
    ELSE IF b[k + 1] >= 192
    THEN IF k + 1 >= Len(b) THEN << >>
         ELSE NameAt(b, (b[k + 1] - 192) * 256 + b[k + 2], fuel - 1)
    ELSE IF b[k + 1] % 64 = 0 THEN << >>
    ELSE SubSeq(b, k + 2, k + 1 + (b[k + 1] % 64)) \o << Dot >>
             \o NameAt(b, k + 1 + (b[k + 1] % 64), fuel - 1)

\* The read_label calls of the latest element
LastCalls == { last.calls[i] : i \in 1..Len(last.calls) }

\* A call whose name field was a compression pointer and nothing else
PurePointer(c) == c.ptr # -1 /\ c.literals = 0

\* C1: a name that is solely a compression pointer to offset k, k the start of
\* a literal label registered earlier in the same decode, is decoded
\* successfully to the dotted name the buffer spells from offset k on: that
\* label and every label after it, the earlier name's own pointer tail included.
C1_CompressionCorrect ==
    \A c \in LastCalls :
        (PurePointer(c) /\ c.ptr \in c.keys)
            => /\ c.kind = "ok"
               /\ c.name = NameAt(buf, c.ptr, Len(buf))

\* C1's case: the second question "c" + pointer to 12 sits at offset 19, and a
\* later name that is only a pointer to 19 decodes to "c.a."
C1_Witness ==
    \E c \in LastCalls :
        /\ PurePointer(c)
        /\ c.ptr = 19
        /\ c.kind = "ok"
        /\ c.name = << 99, Dot, 97, Dot >>
        /\ last.section = "answer"

\* C2: a compression pointer whose offset is no key of the table makes the
\* call, the element and from_bytes return an error: no name comes back, not
\* the empty one and not the labels read before the pointer.
C2_DanglingPointerRejected ==
    \A c \in LastCalls :
        (c.ptr # -1 /\ c.ptr \notin c.keys)
            => /\ c.kind = "err"
               /\ c.err = "No entry on nodes"
               /\ c.name = << >>
               /\ last.kind = "err"
               /\ last.err = ParseLabelError("No entry on nodes")
               /\ result = Failure("err", last.err)

\* C2's case: a label was read, then a pointer to an offset not registered
C2_Witness ==
    \E c \in LastCalls :
        /\ c.literals = 1
        /\ c.ptr = 19
        /\ c.ptr \notin c.keys
        /\ c.kind = "err"
        /\ result.kind = "err"

\* C10 as claimed: a label-start octet in 0x40..0xBF makes name decoding fail
\* with an error.  The code masks the octet with 0x3F and reads on.
C10_ReservedFlagsRejected ==
    \A c \in LastCalls :
        (\E i \in 1..Len(c.octets) : c.octets[i] \in 64..191) => c.kind = "err"

\* C11 as claimed: a name that starts at offset s and ends in (or is only) a
\* compression pointer that resolves is registered in the table under s with
\* its whole name, so that a later pointer to s decodes to that name.  The
\* code registers the offsets of literal labels only: a name that is only a
\* pointer leaves nothing under s.
C11_PointerNamesRegistered ==
    last.kind = "ok" =>
        \A c \in LastCalls :
            (c.kind = "ok" /\ c.ptr # -1)
                => /\ c.index \in DOMAIN nodes
                   /\ get_full_label(heap, nodes[c.index]) = c.name

\* C12 as claimed: a pointer is accepted (found in the table) only when its
\* target lies before the start of the name being decoded, so no chain of
\* nodes loops and get_full_label ends for every name.  The code looks the
\* offset up in a table that already holds the labels of the name itself.
C12_NoCyclicTraversal ==
    /\ \A c \in LastCalls : (c.ptr # -1 /\ c.ptr \in c.keys) => c.ptr < c.index
    /\ \A c \in LastCalls : c.kind # "overflow"
    /\ \A k \in DOMAIN nodes : ~ChainLoops(heap, nodes[k], Len(heap))

\* The bytes the labels behind the label-start octets take, octets included
RECURSIVE OctetSpan(_)
OctetSpan(octets) ==
    IF octets = << >> THEN 0
    ELSE 1 + (Head(octets) % 64) + OctetSpan(Tail(octets))

\* C14 as claimed: a zero byte at a label-start position ends the name
\* successfully with exactly the labels read so far, and only that byte is
\* consumed; a name that is the zero byte alone (the root) is the empty name.
\* The code returns Err("No head detected") when no label was read.
C14_TerminatorEndsName ==
    \A c \in LastCalls :
        (c.octets # << >> /\ c.octets[Len(c.octets)] = 0)
            => /\ c.kind = "ok"
               /\ c.name = NameAt(buf, c.index, Len(buf))
               /\ c.end = c.index + OctetSpan(c.octets)

(***************************************************************************)
(* Properties of Message::from_bytes, checked under Spec.                  *)
(***************************************************************************)
\* The number of elements decoded into each section, in wire order
Lens == << Len(question), Len(answer), Len(authority), Len(additional) >>

\* The counts the header declares, in wire order
Counts == << header.qdcount, header.ancount, header.nscount, header.arcount >>

\* C3: the sections are decoded in wire order over one cursor and one table
\* (no section holds more elements than declared, none is begun before the
\* sections ahead of it are complete, each element starts where the last one
\* ended and keeps the table's entries), and a Message that is returned holds
\* exactly the declared number of elements in each section.
C3_SectionCounts ==
    /\ \A i \in 1..4 : Lens[i] <= Counts[i]
    /\ \A i \in 1..4 : \A j \in 1..4 : (j < i /\ Lens[i] > 0) => Lens[j] = Counts[j]
    /\ last.kind = "ok" => (pos = last.end /\ last.start < last.end
                              /\ last.keys \subseteq DOMAIN nodes)
    /\ result.kind = "ok" =>
          /\ result.message = Message(header, question, answer, authority, additional)
          /\ Len(result.message.question) = header.qdcount
          /\ Len(result.message.answer) = header.ancount
          /\ Len(result.message.authority) = header.nscount
          /\ Len(result.message.additional) = header.arcount

\* C3's case: a Message is returned with all four sections filled, the records
\* naming the question's name through the shared table
C3_Witness ==
    /\ result.kind = "ok"
    /\ Lens = << 1, 1, 1, 1 >>
    /\ result.message.additional[1].name = result.message.question[1].qname
    /\ result.message.authority[1].rdata.variant = "IPV6"

\* The buffer ends where an element the header declares should begin
EndsShort == pc = "done" /\ pos = Len(buf) /\ \E i \in 1..4 : Lens[i] < Counts[i]

\* C4 as claimed: when the header declares more elements than the buffer
\* holds, from_bytes returns an error value (and no Message), it does not
\* abort.  The code reads past the end with get_u8, which panics.
C4_TruncatedInputIsError == EndsShort => result.kind = "err"

\* The latest element is a resource record whose fixed fields were read: its
\* type, class and RDLENGTH, and whether RDLENGTH bytes follow
LastIsRecord ==
    /\ last.section \in {"answer", "authority", "additional"}
    /\ Len(last.calls) >= 1
    /\ last.calls[1].kind = "ok"
    /\ CanRead(buf, last.calls[1].end, 10)
    /\ QClass_from_u16(get_u16(buf, last.calls[1].end + 2))

LastType == get_u16(buf, last.calls[1].end)

LastRdLength == get_u16(buf, last.calls[1].end + 8)

LastRData == SubSeq(buf, last.calls[1].end + 11, last.calls[1].end + 10 + LastRdLength)

LastRDataPresent == CanRead(buf, last.calls[1].end + 10, LastRdLength)

\* C5 as claimed: an A record of RDLENGTH 4 yields IPV4 with the four bytes in
\* wire order; an A record of another RDLENGTH, or an AAAA record of an
\* RDLENGTH other than 16, yields an error result.  The code asserts the
\* length, which panics.
C5_AddressLength ==
    (LastIsRecord /\ LastRDataPresent) =>
        /\ (LastType = QType_A /\ LastRdLength = 4) =>
              /\ last.kind = "ok"
              /\ last.value.rdata.variant = "IPV4"
              /\ last.value.rdata.bytes = LastRData
        /\ (LastType = QType_A /\ LastRdLength # 4) => last.kind = "err"
        /\ (LastType = QType_AAAA /\ LastRdLength # 16) => last.kind = "err"

\* C13 as claimed: after a resource record is decoded successfully the cursor
\* stands exactly RDLENGTH bytes past the first RDATA byte; a record whose
\* RDATA would be read to another length is an error.  The code reads TXT,
\* CNAME, NS and MX data by their own encoding and never compares the bytes
\* it consumed with RDLENGTH.
C13_RDataConsumesRdLength ==
    (LastIsRecord /\ last.kind = "ok")
        => /\ last.end = last.calls[1].end + 10 + LastRdLength
           /\ pos = last.end

\* C9: an element that fails ends from_bytes at once: nothing more can be
\* decoded, the element's error is the result, no Message is returned; and a
\* Message is returned only when every declared element was decoded.
C9_AllOrNothing ==
    /\ last.kind \notin {"ok", "none"} =>
          /\ pc = "done"
          /\ ~ENABLED Next
          /\ result = Failure(last.kind, last.err)
          /\ result.message = NoMessage
    /\ result.kind = "ok" =>
          /\ last.kind \in {"ok", "none"}
          /\ Lens = Counts
    /\ result.kind \notin {"ok", "none"} => result.message = NoMessage
    /\ (pc # "done") => result = NoResult

\* C9's case: the second of three declared records returned Err after a
\* first one was decoded; the third is never decoded
C9_Witness ==
    /\ last.kind = "err"
    /\ last.section = "answer"
    /\ Len(answer) = 1
    /\ header.ancount = 2
    /\ header.nscount = 1
    /\ pos < Len(buf)
    /\ result.kind = "err"

(***************************************************************************)
(* Properties of queries, checked under SpecQuery.                         *)
(***************************************************************************)
\* to_bytes has run: the query's bytes are in buf
Serialized == pc \notin {"input", "created"}

\* A label of 1..63 printable ASCII bytes other than the space and the dot
PlainLabel(l) ==
    /\ Len(l) \in 1..63
    /\ \A i \in 1..Len(l) : l[i] \in 33..126 /\ l[i] # Dot

\* The wire codes of the supported mnemonics (RFC 1035, 3.2.2 to 3.2.5; AAAA
\* from RFC 3596), written out apart from QType::from_str and QClass::from_str
TypeCodeOf(m) ==
    CASE m = "A" -> 1 [] m = "NS" -> 2 [] m = "CNAME" -> 5
      [] m = "MX" -> 15 [] m = "TXT" -> 16 [] m = "AAAA" -> 28

ClassCodeOf(m) ==
    CASE m = "IN" -> 1 [] m = "CS" -> 2 [] m = "CH" -> 3
      [] m = "HS" -> 4 [] m = "ANY" -> 255

\* A query of plain labels and supported mnemonics
ValidQuery ==
    /\ Len(input.labels) >= 1
    /\ \A i \in 1..Len(input.labels) : PlainLabel(input.labels[i])
    /\ input.qtype \in {"A", "NS", "CNAME", "MX", "TXT", "AAAA"}
    /\ input.qclass \in {"IN", "CS", "CH", "HS", "ANY"}

\* The bytes C7 names: the id, 0x01 0x00, the counts 1 0 0 0, each label behind
\* its length byte, one zero byte, the type and the class, both big-endian
QueryWire ==
    << input.id \div 256, input.id % 256, 1, 0, 0, 1, 0, 0, 0, 0, 0, 0 >>
        \o Flatten([i \in 1..Len(input.labels) |->
                        << Len(input.labels[i]) >> \o input.labels[i]])
        \o << 0, 0, TypeCodeOf(input.qtype), 0, ClassCodeOf(input.qclass) >>

\* C6 as claimed: a question whose name has a label of exactly 63 bytes is
\* written as the length byte 63 and the 63 bytes; a name with a label of 64
\* bytes or more is not encoded at all (the encoding fails), so every length
\* byte ever written is a true length in 1..63.  The code has no length check
\* and no error path: it writes label.len() as u8.
C6_LabelLengthBoundary ==
    /\ (Serialized /\ input.labels = << Rep(120, 63) >>)
          => SubSeq(buf, 13, 76) = << 63 >> \o Rep(120, 63)
    /\ (\E i \in 1..Len(input.labels) : Len(as_bytes(input.labels[i])) >= 64)
          => ~Serialized

\* C7: for a domain of plain labels and supported mnemonics create_query
\* succeeds and to_bytes writes exactly QueryWire, nothing before, between or
\* after.
C7_QueryBitExact ==
    ValidQuery =>
        /\ pc = "created" => query.kind = "ok"
        /\ Serialized => buf = QueryWire

\* C7's case: a two-label domain with a 63-byte label, type AAAA, id 0x1234
C7_Witness ==
    /\ ValidQuery
    /\ pc = "start"
    /\ input.labels = << Rep(120, 63), << 98, 99 >> >>
    /\ input.qtype = "AAAA"
    /\ input.id = 4660
    /\ Len(buf) = 12 + 64 + 3 + 1 + 4

\* The question create_query built
Asked == query.message.question[1]

\* C8 as claimed: the decoded Message equals the one serialized, qname included
C8_RoundTripSameName ==
    (ValidQuery /\ pc = "done") =>
        /\ result.kind = "ok"
        /\ result.message.header = query.message.header
        /\ Len(result.message.question) = 1
        /\ result.message.question[1].qname = Asked.qname
        /\ result.message.question[1].qtype = Asked.qtype
        /\ result.message.question[1].qclass = Asked.qclass
        /\ result.message.answer = << >>
        /\ result.message.authority = << >>
        /\ result.message.additional = << >>

\* C8, amended: the decoded Message has the header, qtype and qclass of the
\* one serialized and empty record sections; its qname is the original qname
\* with a dot appended.
C8_RoundTrip ==
    (ValidQuery /\ pc = "done") =>
        /\ result.kind = "ok"
        /\ result.message.header = query.message.header
        /\ result.message.header = Header(input.id, 256, 1, 0, 0, 0)
        /\ Len(result.message.question) = 1
        /\ result.message.question[1].qname = Asked.qname \o << Dot >>
        /\ result.message.question[1].qtype = Asked.qtype
        /\ result.message.question[1].qclass = Asked.qclass
        /\ result.message.answer = << >>
        /\ result.message.authority = << >>
        /\ result.message.additional = << >>

\* C8's case: "a.<63 x>" asked with type MX came back as "a.<63 x>."
C8_Witness ==
    /\ ValidQuery
    /\ pc = "done"
    /\ result.kind = "ok"
    /\ input.labels = << << 97 >>, Rep(120, 63) >>
    /\ input.qtype = "MX"
    /\ Asked.qname = Join(input.labels)
    /\ result.message.question[1].qname = Join(input.labels) \o << Dot >>

\* The non-empty ones of the labels, in order
RECURSIVE NonEmptyLabels(_)
NonEmptyLabels(labels) ==
    IF labels = << >> THEN << >>
    ELSE IF Head(labels) = << >> THEN NonEmptyLabels(Tail(labels))
    ELSE << Head(labels) >> \o NonEmptyLabels(Tail(labels))

\* C15 as claimed: for a name with a leading, a trailing or a doubled dot the
\* encoded name is the length byte and the bytes of each non-empty label, then
\* one zero byte: no zero-length label stands before the terminator, and a
\* name with a trailing dot encodes as the name without it.  The code writes a
\* zero length byte for every empty piece split('.') yields.
C15_EmptyLabelsSkipped ==
    (/\ Serialized
     /\ \A i \in 1..Len(input.labels) :
            input.labels[i] = << >> \/ PlainLabel(input.labels[i]))
        => SubSeq(buf, 13, Len(buf) - 4)
             = Flatten([i \in 1..Len(NonEmptyLabels(input.labels)) |->
                          << Len(NonEmptyLabels(input.labels)[i]) >>
                              \o NonEmptyLabels(input.labels)[i]])
               \o << 0 >>

(***************************************************************************)
(* Properties of the header's display, checked under SpecHeader.           *)
(***************************************************************************)
\* C16 as claimed: the fields displayed for flags f are QR = bit 15, OPCODE =
\* bits 14..11, AA = bit 10, TC = bit 9, RD = bit 8, RA = bit 7, Z = bits 6..4
\* and RCODE = bits 3..0, and together they give f back.  The code masks the
\* opcode with 0x7, three bits, so bit 14 is in no field.
C16_FlagFields ==
    shown # NoShown =>
        /\ shown.QR = (header.flags \div 32768) % 2
        /\ shown.OPCODE = (header.flags \div 2048) % 16
        /\ shown.AA = (header.flags \div 1024) % 2
        /\ shown.TC = (header.flags \div 512) % 2
        /\ shown.RD = (header.flags \div 256) % 2
        /\ shown.RA = (header.flags \div 128) % 2
        /\ shown.Z = (header.flags \div 16) % 8
        /\ shown.RCODE = header.flags % 16
        /\ header.flags = shown.QR * 32768 + shown.OPCODE * 2048 + shown.AA * 1024
                            + shown.TC * 512 + shown.RD * 256 + shown.RA * 128
                            + shown.Z * 16 + shown.RCODE

=============================================================================
